---------------------------- MODULE Spec2Model ----------------------------
(***************************************************************************)
(* Model of src/main.py: a Streamlit dashboard script.                     *)
(*                                                                         *)
(* The script is re-executed top to bottom for every session interaction.  *)
(* Two loaders wrapped in st.cache_data read the data directory; the rest  *)
(* of the script renders a sidebar and three tabs from the loaded tables.  *)
(*                                                                         *)
(* Encodings used throughout:                                              *)
(*  - a file name is a non-empty sequence of code points; the code points  *)
(*    "L", "V", "T" are conjoining Hangul jamo and "LV", "LVT" are the     *)
(*    precomposed syllables they compose to; every other code point has    *)
(*    no canonical decomposition;                                          *)
(*  - Python's None is the record None for a loader's result, the empty    *)
(*    sequence NoPath for a path (names are never empty), and MissingEC    *)
(*    for the value of an EC cell;                                         *)
(*  - EC levels 1.0, 2.0, 4.0, 8.0 are the integers 1, 2, 4, 8;            *)
(*  - a mean is an exact fraction [num, den] in lowest terms; the mean of  *)
(*    no values (pandas' NaN) is NaN, the fraction 0/0.                    *)
(***************************************************************************)
EXTENDS Integers, Sequences, FiniteSets, TLC

(***************************************************************************)
(* Bounds of the model.                                                    *)
(***************************************************************************)
MaxNameLen == 2
MaxDirLen == 2
NumSessions == 2
MaxCalls == 2
MaxEnvRows == 1
MaxGrowthRows == 3

(***************************************************************************)
(* Unicode normalisation (unicodedata.normalize("NFC", text)): canonical   *)
(* decomposition followed by canonical composition.                        *)
(***************************************************************************)
DecomposeCp(c) ==
    IF c = "LV" THEN <<"L", "V">>
    ELSE IF c = "LVT" THEN <<"L", "V", "T">>
    ELSE <<c>>

RECURSIVE Decompose(_)
Decompose(text) ==
    IF text = <<>> THEN <<>>
    ELSE DecomposeCp(Head(text)) \o Decompose(Tail(text))

\* One step of canonical composition: c is combined with the last code
\* point of acc when the pair has a primary composite.
ComposeStep(acc, c) ==
    IF acc # <<>> /\ acc[Len(acc)] = "L" /\ c = "V"
      THEN [acc EXCEPT ![Len(acc)] = "LV"]
    ELSE IF acc # <<>> /\ acc[Len(acc)] = "LV" /\ c = "T"
      THEN [acc EXCEPT ![Len(acc)] = "LVT"]
    ELSE Append(acc, c)

RECURSIVE ComposeFrom(_, _)
ComposeFrom(acc, text) ==
    IF text = <<>> THEN acc
    ELSE ComposeFrom(ComposeStep(acc, Head(text)), Tail(text))

Compose(text) == ComposeFrom(<<>>, text)

\* A plausible slip: names compared as stored, with no normalisation.
normalize_raw(text) == text

normalize(text) == Compose(Decompose(text))

NoPath == <<>>

\* The loop of find_file_by_name over directory.iterdir(), from entry i on.
RECURSIVE find_from(_, _, _)
find_from(directory, target_norm, i) ==
    IF i > Len(directory) THEN NoPath
    ELSE IF normalize(directory[i]) = target_norm THEN directory[i]
    ELSE find_from(directory, target_norm, i + 1)

find_file_by_name(directory, target_name) ==
    find_from(directory, normalize(target_name), 1)


(***************************************************************************)
(* Program constants.                                                      *)
(***************************************************************************)
\* EC_INFO.keys(), in insertion order.
SchoolOrder == <<"Songdo", "Haneul", "Ara", "Dongsan">>

Schools == {SchoolOrder[i] : i \in 1..Len(SchoolOrder)}

EC_INFO == [school \in Schools |->
              CASE school = "Songdo" -> 1
                [] school = "Haneul" -> 2
                [] school = "Ara" -> 4
                [] school = "Dongsan" -> 8]

\* The value of EC_INFO.get(sheet, None) for a sheet that is no key.
MissingEC == -1

\* f"{school}_<Hangul>.csv": the Hangul part is a precomposed syllable.
EnvFileName(school) == <<school, "_", "LV", ".csv">>

\* xlsx_name
GrowthFileName == <<"4", "LV", ".xlsx">>

\* Options of the sidebar selectbox: "All" first, then the schools.
AllOption == "All"

SelectOptions == {AllOption} \cup Schools

(***************************************************************************)
(* Python values.                                                          *)
(***************************************************************************)
None == [None |-> TRUE]

EmptyDict == [k \in {} |-> <<>>]

\* dict[key] = value
DictSet(d, key, value) ==
    [k \in DOMAIN d \cup {key} |-> IF k = key THEN value ELSE d[k]]

\* Iteration order of the two dicts the loaders build: both insert their
\* keys in the order of this list (the workbooks of the model list their
\* sheets in this order).
NameOrder == SchoolOrder \o <<"Other">>

Keys(d) == SelectSeq(NameOrder, LAMBDA k : k \in DOMAIN d)

RECURSIVE ConcatFrom(_, _)
ConcatFrom(d, keys) ==
    IF keys = <<>> THEN <<>>
    ELSE d[Head(keys)] \o ConcatFrom(d, Tail(keys))

\* pd.concat(d.values())
Concat(d) == ConcatFrom(d, Keys(d))

(***************************************************************************)
(* Exact arithmetic for means.                                             *)
(***************************************************************************)
RECURSIVE Gcd(_, _)
Gcd(a, b) == IF b = 0 THEN a ELSE Gcd(b, a % b)

NaN == [num |-> 0, den |-> 0]

Frac(a, b) == [num |-> a \div Gcd(a, b), den |-> b \div Gcd(a, b)]

RECURSIVE SumSeq(_)
SumSeq(xs) == IF xs = <<>> THEN 0 ELSE Head(xs) + SumSeq(Tail(xs))

\* Series.mean(): NaN for an empty series.
Mean(xs) == IF xs = <<>> THEN NaN ELSE Frac(SumSeq(xs), Len(xs))

\* a > b for two defined means.
Greater(a, b) == a.num * b.den > b.num * a.den

\* rows[column]: the values of one column.
Column(rows, column) == [i \in 1..Len(rows) |-> rows[i][column]]

(***************************************************************************)
(* The data directory.  disk is the sequence of its entries in iteration   *)
(* order, each with the name it is stored under and its parsed content:    *)
(* the rows of a CSV file, or the sheets of a workbook.                    *)
(***************************************************************************)
Names(d) == [i \in 1..Len(d) |-> d[i].name]

RECURSIVE ContentOf(_, _)
ContentOf(d, path) ==
    IF d = <<>> THEN <<>>
    ELSE IF Head(d).name = path THEN Head(d).content
    ELSE ContentOf(Tail(d), path)

(***************************************************************************)
(* State.                                                                  *)
(***************************************************************************)
VARIABLES
    rdir, rtarget, rresult,      \* a call of find_file_by_name: arguments, result
    disk,                        \* DATA_DIR
    envCache, growthCache,       \* st.cache_data's entry of each loader
    envLock, growthLock,         \* the lock held while an entry is computed
    pc,                          \* position of each session's script run
    data, idx, msgs,             \* locals of the loader a session executes
    env_data, growth_data,       \* module-level results of the two loads
    errors,                      \* st.error messages shown in the run
    selected_school,
    view,                        \* what the run has rendered
    envCalls, growthCalls,       \* history: calls of each loader
    envLoads, growthLoads,       \* history: executions of each loader's body
    envReads, growthReads,       \* history: reads of each input file
    envReturned, growthReturned  \* history: values returned by each loader

resolverVars == <<rdir, rtarget, rresult>>

cacheVars == <<envCache, growthCache, envLock, growthLock>>

sessionVars == <<pc, data, idx, msgs, env_data, growth_data, errors,
                 selected_school, view>>

historyVars == <<envCalls, growthCalls, envLoads, growthLoads, envReads,
                 growthReads, envReturned, growthReturned>>

vars == <<resolverVars, disk, cacheVars, sessionVars, historyVars>>

Sessions == 1..NumSessions

NoOwner == 0

NotCached == [cached |-> FALSE]

\* A stored entry: the pickled return value and the st.* calls recorded
\* while the body ran, replayed on every hit.
Entry(value, messages) == [cached |-> TRUE, value |-> value, messages |-> messages]

Unset == [Unset |-> TRUE]

NotRendered == [rendered |-> FALSE]

EmptyView == [sidebar |-> FALSE, tab1 |-> NotRendered, tab2 |-> NotRendered,
              tab3 |-> NotRendered]

\* st.error(f"...: {filename}") and st.error("...") as the literal text and
\* the values interpolated into it.
EnvErrorMessage(filename) == [text |-> "env file not found", shows |-> <<filename>>]

GrowthErrorMessage == [text |-> "growth workbook not found", shows |-> <<>>]

(***************************************************************************)
(* A script run starts: every rerun executes the module from the top.      *)
(***************************************************************************)
Run(s) ==
    /\ pc[s] \in {"idle", "done", "stopped", "crashed"}
    /\ envCalls < MaxCalls
    /\ pc' = [pc EXCEPT ![s] = "env_call"]
    /\ env_data' = [env_data EXCEPT ![s] = Unset]
    /\ growth_data' = [growth_data EXCEPT ![s] = Unset]
    /\ errors' = [errors EXCEPT ![s] = <<>>]
    /\ view' = [view EXCEPT ![s] = EmptyView]
    /\ UNCHANGED <<resolverVars, disk, cacheVars, data, idx, msgs,
                   selected_school, historyVars>>

(***************************************************************************)
(* load_environment_data under st.cache_data.                              *)
(***************************************************************************)
\* A plausible slip: the entry is never found, so every call recomputes.
CacheRead_nocache(cache) == NotCached

\* cache.read_result(value_key)
CacheRead(cache) == cache

\* The cached call returns to the module level: env_data = <stored value>,
\* with the recorded messages replayed.
EnvReturn(s, entry) ==
    /\ env_data' = [env_data EXCEPT ![s] = entry.value]
    /\ errors' = [errors EXCEPT ![s] = @ \o entry.messages]
    /\ envReturned' = envReturned \cup {entry.value}
    /\ pc' = [pc EXCEPT ![s] = "growth_call"]

\* env_data = load_environment_data(): the wrapper looks the entry up.
EnvCall(s) ==
    /\ pc[s] = "env_call"
    /\ envCalls' = envCalls + 1
    /\ IF CacheRead(envCache).cached
         THEN EnvReturn(s, CacheRead(envCache))
         ELSE /\ pc' = [pc EXCEPT ![s] = "env_lock"]
              /\ UNCHANGED <<env_data, errors, envReturned>>
    /\ UNCHANGED <<resolverVars, disk, cacheVars, data, idx, msgs,
                   growth_data, selected_school, view, growthCalls,
                   envLoads, growthLoads, envReads, growthReads,
                   growthReturned>>

\* A plausible slip: the miss path computes without taking the lock.
LockFree_nolock(lock) == TRUE

\* threading.Lock: acquirable only while no session holds it.
LockFree(lock) == lock = NoOwner

\* On a miss the wrapper takes the entry's compute lock, looks the entry up
\* again, and only then runs the body.
EnvAcquire(s) ==
    /\ pc[s] = "env_lock"
    /\ LockFree(envLock)
    /\ IF CacheRead(envCache).cached
         THEN /\ EnvReturn(s, CacheRead(envCache))
              /\ UNCHANGED <<envLock, data, idx, msgs, envLoads>>
         ELSE /\ envLock' = s
              /\ pc' = [pc EXCEPT ![s] = "env_body"]
              /\ data' = [data EXCEPT ![s] = EmptyDict]
              /\ idx' = [idx EXCEPT ![s] = 1]
              /\ msgs' = [msgs EXCEPT ![s] = <<>>]
              /\ envLoads' = envLoads + 1
              /\ UNCHANGED <<env_data, errors, envReturned>>
    /\ UNCHANGED <<resolverVars, disk, envCache, growthCache, growthLock,
                   growth_data, selected_school, view, envCalls, growthCalls,
                   growthLoads, envReads, growthReads, growthReturned>>

\* df = pd.read_csv(file_path); df["school"] = school
TagEnv(rows, school) ==
    [i \in 1..Len(rows) |->
        [time |-> rows[i].time, temperature |-> rows[i].temperature,
         humidity |-> rows[i].humidity, ph |-> rows[i].ph, ec |-> rows[i].ec,
         school |-> school]]

\* The body returns value: the wrapper stores it with the recorded
\* messages, releases the lock and hands the value to the caller.
EnvFinish(s, value, messages) ==
    /\ envCache' = Entry(value, messages)
    /\ envLock' = NoOwner
    /\ EnvReturn(s, Entry(value, messages))
    /\ msgs' = [msgs EXCEPT ![s] = messages]

\* A plausible slip: a missing file ends the loop with what was read so far.
EnvMissingResult_partial(d) == d

\* return None
EnvMissingResult(d) == None

\* One iteration of the loop over EC_INFO.keys(), or the final return.
EnvBody(s) ==
    /\ pc[s] = "env_body"
    /\ IF idx[s] > Len(SchoolOrder)
         THEN /\ EnvFinish(s, data[s], msgs[s])
              /\ UNCHANGED <<data, idx, envReads>>
         ELSE LET school == SchoolOrder[idx[s]]
                  filename == EnvFileName(school)
                  file_path == find_file_by_name(Names(disk), filename)
              IN  IF file_path = NoPath
                    THEN /\ EnvFinish(s, EnvMissingResult(data[s]),
                                      Append(msgs[s], EnvErrorMessage(filename)))
                         /\ UNCHANGED <<data, idx, envReads>>
                    ELSE /\ envReads' = [envReads EXCEPT ![school] = @ + 1]
                         /\ data' = [data EXCEPT ![s] =
                               DictSet(@, school,
                                       TagEnv(ContentOf(disk, file_path), school))]
                         /\ idx' = [idx EXCEPT ![s] = @ + 1]
                         /\ UNCHANGED <<envCache, envLock, env_data, errors,
                                        envReturned, pc, msgs>>
    /\ UNCHANGED <<resolverVars, disk, growthCache, growthLock, growth_data,
                   selected_school, view, envCalls, growthCalls, envLoads,
                   growthLoads, growthReads, growthReturned>>

(***************************************************************************)
(* load_growth_data under st.cache_data.                                   *)
(***************************************************************************)
GrowthReturn(s, entry) ==
    /\ growth_data' = [growth_data EXCEPT ![s] = entry.value]
    /\ errors' = [errors EXCEPT ![s] = @ \o entry.messages]
    /\ growthReturned' = growthReturned \cup {entry.value}
    /\ pc' = [pc EXCEPT ![s] = "check"]

\* growth_data = load_growth_data(): the wrapper looks the entry up.
GrowthCall(s) ==
    /\ pc[s] = "growth_call"
    /\ growthCalls' = growthCalls + 1
    /\ IF CacheRead(growthCache).cached
         THEN GrowthReturn(s, CacheRead(growthCache))
         ELSE /\ pc' = [pc EXCEPT ![s] = "growth_lock"]
              /\ UNCHANGED <<growth_data, errors, growthReturned>>
    /\ UNCHANGED <<resolverVars, disk, cacheVars, data, idx, msgs, env_data,
                   selected_school, view, envCalls, envLoads, growthLoads,
                   envReads, growthReads, envReturned>>

GrowthAcquire(s) ==
    /\ pc[s] = "growth_lock"
    /\ LockFree(growthLock)
    /\ IF CacheRead(growthCache).cached
         THEN /\ GrowthReturn(s, CacheRead(growthCache))
              /\ UNCHANGED <<growthLock, growthLoads>>
         ELSE /\ growthLock' = s
              /\ pc' = [pc EXCEPT ![s] = "growth_body"]
              /\ growthLoads' = growthLoads + 1
              /\ UNCHANGED <<growth_data, errors, growthReturned>>
    /\ UNCHANGED <<resolverVars, disk, envCache, growthCache, envLock, data,
                   idx, msgs, env_data, selected_school, view, envCalls,
                   growthCalls, envLoads, envReads, growthReads, envReturned>>

\* A plausible slip: EC_INFO[sheet] read for the known schools and a
\* numeric default written for every other sheet.
SheetEC_zero(sheet) == IF sheet \in DOMAIN EC_INFO THEN EC_INFO[sheet] ELSE 0

\* EC_INFO.get(sheet, None)
SheetEC(sheet) == IF sheet \in DOMAIN EC_INFO THEN EC_INFO[sheet] ELSE MissingEC

\* df = pd.read_excel(xls, sheet_name=sheet); df["school"] = sheet;
\* df["EC"] = EC_INFO.get(sheet, None)
TagGrowth(rows, sheet) ==
    [i \in 1..Len(rows) |->
        [weight |-> rows[i].weight, leaves |-> rows[i].leaves,
         length |-> rows[i].length, school |-> sheet, EC |-> SheetEC(sheet)]]

\* The loop over xls.sheet_names.
RECURSIVE LoadSheets(_, _)
LoadSheets(sheets, d) ==
    IF sheets = <<>> THEN d
    ELSE LoadSheets(Tail(sheets),
                    DictSet(d, Head(sheets).name,
                            TagGrowth(Head(sheets).rows, Head(sheets).name)))

\* The body of load_growth_data, then the wrapper's store and release.
GrowthBody(s) ==
    /\ pc[s] = "growth_body"
    /\ LET file_path == find_file_by_name(Names(disk), GrowthFileName)
           value == IF file_path = NoPath THEN None
                    ELSE LoadSheets(ContentOf(disk, file_path), EmptyDict)
           messages == IF file_path = NoPath THEN <<GrowthErrorMessage>>
                       ELSE <<>>
       IN  /\ growthReads' = IF file_path = NoPath THEN growthReads
                             ELSE growthReads + 1
           /\ growthCache' = Entry(value, messages)
           /\ growthLock' = NoOwner
           /\ GrowthReturn(s, Entry(value, messages))
    /\ UNCHANGED <<resolverVars, disk, envCache, envLock, data, idx, msgs,
                   env_data, selected_school, view, envCalls, growthCalls,
                   envLoads, growthLoads, envReads, envReturned>>

(***************************************************************************)
(* if env_data is None or growth_data is None: st.stop()                   *)
(***************************************************************************)
MustStop(e, g) == e = None \/ g = None

Check(s) ==
    /\ pc[s] = "check"
    /\ pc' = [pc EXCEPT ![s] = IF MustStop(env_data[s], growth_data[s])
                                 THEN "stopped" ELSE "sidebar"]
    /\ UNCHANGED <<resolverVars, disk, cacheVars, data, idx, msgs, env_data,
                   growth_data, errors, selected_school, view, historyVars>>

\* selected_school = st.sidebar.selectbox(...): the widget's current value.
Sidebar(s) ==
    /\ pc[s] = "sidebar"
    /\ \E option \in SelectOptions :
          selected_school' = [selected_school EXCEPT ![s] = option]
    /\ view' = [view EXCEPT ![s].sidebar = TRUE]
    /\ pc' = [pc EXCEPT ![s] = "tab1"]
    /\ UNCHANGED <<resolverVars, disk, cacheVars, data, idx, msgs, env_data,
                   growth_data, errors, historyVars>>

(***************************************************************************)
(* pandas aggregation used by the tabs.                                    *)
(***************************************************************************)
Min(S) == CHOOSE x \in S : \A y \in S : x <= y

RECURSIVE SortedKeys(_)
SortedKeys(S) ==
    IF S = {} THEN <<>> ELSE <<Min(S)>> \o SortedKeys(S \ {Min(S)})

\* The keys of groupby("EC"): the distinct EC values in ascending order;
\* rows whose key is missing are dropped (dropna=True).
GroupKeys(rows) ==
    SortedKeys({rows[i].EC : i \in 1..Len(rows)} \ {MissingEC})

Group(rows, key) == SelectSeq(rows, LAMBDA r : r.EC = key)

\* growth_all.groupby("EC")[column].mean()
GroupMean(rows, column) ==
    LET keys == GroupKeys(rows)
    IN  [i \in 1..Len(keys) |->
            [EC |-> keys[i], mean |-> Mean(Column(Group(rows, keys[i]), column))]]

\* growth_all.groupby("EC").size()
GroupSize(rows) ==
    LET keys == GroupKeys(rows)
    IN  [i \in 1..Len(keys) |-> [EC |-> keys[i], size |-> Len(Group(rows, keys[i]))]]

\* A plausible slip: on equal means the later group wins.
RECURSIVE ArgMaxFrom_last(_, _, _)
ArgMaxFrom_last(series, best, i) ==
    IF i > Len(series) THEN best
    ELSE IF ~Greater(series[best].mean, series[i].mean)
      THEN ArgMaxFrom_last(series, i, i + 1)
    ELSE ArgMaxFrom_last(series, best, i + 1)

\* Position of the first maximum of a non-empty series, scanning from i.
RECURSIVE ArgMaxFrom(_, _, _)
ArgMaxFrom(series, best, i) ==
    IF i > Len(series) THEN best
    ELSE IF Greater(series[i].mean, series[best].mean)
      THEN ArgMaxFrom(series, i, i + 1)
    ELSE ArgMaxFrom(series, best, i + 1)

\* Series.idxmax() of a series indexed by EC: the label of the first
\* maximum.  It raises ValueError on an empty series.
IdxMaxRaises(series) == series = <<>>

IdxMax(series) == series[ArgMaxFrom(series, 1, 2)].EC

\* Column names: the Korean headers of the growth sheets are "weight",
\* "leaves" and "length".
Temperature == "temperature"
Humidity == "humidity"
Ph == "ph"
MeasuredEc == "ec"
Weight == "weight"
Leaves == "leaves"
ShootLength == "length"

(***************************************************************************)
(* Tab 1: overview.                                                        *)
(***************************************************************************)
\* growth_data[s] for s in EC_INFO.keys() raises KeyError when the workbook
\* has no sheet of that name.
InfoRaises(g) == \E school \in Schools : school \notin DOMAIN g

\* info_df's count column: [len(growth_data[s]) for s in EC_INFO.keys()]
InfoCounts(g) == [i \in 1..Len(SchoolOrder) |-> Len(g[SchoolOrder[i]])]

Tab1(s) ==
    /\ pc[s] = "tab1"
    /\ LET e == env_data[s]
           g == growth_data[s]
           growth_all == Concat(g)
           series == GroupMean(growth_all, Weight)
       IN  IF InfoRaises(g) \/ IdxMaxRaises(series)
             THEN /\ pc' = [pc EXCEPT ![s] = "crashed"]
                  /\ UNCHANGED view
             ELSE /\ view' = [view EXCEPT ![s].tab1 =
                        [rendered |-> TRUE,
                         total_plants |-> SumSeq(InfoCounts(g)),
                         avg_temp |-> Mean(Column(Concat(e), Temperature)),
                         avg_hum |-> Mean(Column(Concat(e), Humidity)),
                         best_ec |-> IdxMax(series)]]
                  /\ pc' = [pc EXCEPT ![s] = "tab2"]
    /\ UNCHANGED <<resolverVars, disk, cacheVars, data, idx, msgs, env_data,
                   growth_data, errors, selected_school, historyVars>>

(***************************************************************************)
(* Tab 2: environment data.                                                *)
(***************************************************************************)
\* env_all.groupby("school").mean(numeric_only=True): one row per school
\* that has a row in env_all.
EnvMean(env_all) ==
    LET present == {env_all[i].school : i \in 1..Len(env_all)}
        Of(k) == SelectSeq(env_all, LAMBDA r : r.school = k)
    IN  [k \in present |->
            [temperature |-> Mean(Column(Of(k), Temperature)),
             humidity |-> Mean(Column(Of(k), Humidity)),
             ph |-> Mean(Column(Of(k), Ph)),
             ec |-> Mean(Column(Of(k), MeasuredEc))]]

NoChart == [drawn |-> FALSE]

\* The time-series figure of one school, with the reference line.
TimeSeries(e, selected) ==
    IF selected # AllOption
      THEN [drawn |-> TRUE, rows |-> e[selected], hline |-> EC_INFO[selected]]
      ELSE NoChart

\* The rest of the tab, given env_all.
Tab2Render(s, env_all) ==
    /\ pc[s] = "tab2"
    /\ view' = [view EXCEPT ![s].tab2 =
            [rendered |-> TRUE,
             env_mean |-> EnvMean(env_all),
             target_ec |-> EC_INFO,
             ts |-> TimeSeries(env_data[s], selected_school[s]),
             raw |-> env_all]]
    /\ pc' = [pc EXCEPT ![s] = "tab3"]
    /\ UNCHANGED <<resolverVars, disk, cacheVars, data, idx, msgs, env_data,
                   growth_data, errors, selected_school, historyVars>>

\* A plausible slip: the bar charts follow the sidebar's selection.
Tab2_filtered(s) ==
    Tab2Render(s, IF selected_school[s] = AllOption THEN Concat(env_data[s])
                  ELSE env_data[s][selected_school[s]])

\* env_all = pd.concat(env_data.values())
Tab2(s) == Tab2Render(s, Concat(env_data[s]))

(***************************************************************************)
(* Tab 3: growth results.                                                  *)
(***************************************************************************)
\* mean_weight.loc[mean_weight[weight].idxmax(), "EC"]: after reset_index
\* the label idxmax returns is the row's position.
BestRowEC(mean_weight) == mean_weight[ArgMaxFrom(mean_weight, 1, 2)].EC

\* zip([c1, c2, c3, c4], mean_weight.iterrows()): one metric per row, for
\* the first four rows, starred where the row's EC is best_ec.
Metrics(mean_weight, best_ec) ==
    LET n == IF Len(mean_weight) < 4 THEN Len(mean_weight) ELSE 4
    IN  [i \in 1..n |->
            [EC |-> mean_weight[i].EC, star |-> mean_weight[i].EC = best_ec,
             value |-> mean_weight[i].mean]]

Tab3(s) ==
    /\ pc[s] = "tab3"
    /\ LET growth_all == Concat(growth_data[s])
           mean_weight == GroupMean(growth_all, Weight)
       IN  IF IdxMaxRaises(mean_weight)
             THEN /\ pc' = [pc EXCEPT ![s] = "crashed"]
                  /\ UNCHANGED view
             ELSE /\ view' = [view EXCEPT ![s].tab3 =
                        [rendered |-> TRUE,
                         mean_weight |-> mean_weight,
                         best_ec |-> BestRowEC(mean_weight),
                         metrics |-> Metrics(mean_weight, BestRowEC(mean_weight)),
                         mean_leaves |-> GroupMean(growth_all, Leaves),
                         mean_length |-> GroupMean(growth_all, ShootLength),
                         sizes |-> GroupSize(growth_all),
                         raw |-> growth_all]]
                  /\ pc' = [pc EXCEPT ![s] = "done"]
    /\ UNCHANGED <<resolverVars, disk, cacheVars, data, idx, msgs, env_data,
                   growth_data, errors, selected_school, historyVars>>

(***************************************************************************)
(* A call of find_file_by_name on its own.                                 *)
(***************************************************************************)
NotCalled == [done |-> FALSE]

Resolve ==
    /\ rresult = NotCalled
    /\ rresult' = [done |-> TRUE, path |-> find_file_by_name(rdir, rtarget)]
    /\ UNCHANGED <<rdir, rtarget, disk, cacheVars, sessionVars, historyVars>>

(***************************************************************************)
(* Initial states.                                                         *)
(***************************************************************************)
Alphabet == {"L", "V", "LV"}

NameSet == UNION {[1..n -> Alphabet] : n \in 1..MaxNameLen}

\* Listings of a directory: its entries have distinct stored names.
Directories ==
    {d \in UNION {[1..n -> NameSet] : n \in 0..MaxDirLen} :
        \A i, j \in 1..Len(d) : i # j => d[i] # d[j]}

EnvRows ==
    <<[time |-> 1, temperature |-> 0, humidity |-> 50, ph |-> 6, ec |-> 1],
      [time |-> 2, temperature |-> 20, humidity |-> 60, ph |-> 7, ec |-> 2]>>

GrowthRows ==
    <<[weight |-> 2, leaves |-> 3, length |-> 10],
      [weight |-> 4, leaves |-> 5, length |-> 20],
      [weight |-> 10, leaves |-> 8, length |-> 30]>>

\* Contents of one environment file: up to MaxEnvRows rows.
EnvContents ==
    {[i \in 1..Len(p) |-> EnvRows[p[i]]] :
        p \in UNION {[1..n -> 1..Len(EnvRows)] : n \in 0..MaxEnvRows}}

DefaultEnv == [school \in Schools |-> <<EnvRows[2]>>]

\* A pick p places row GrowthRows[p % 3 + 1] on sheet NameOrder[p \div 3 + 1].
PickSheet(p) == NameOrder[(p \div Len(GrowthRows)) + 1]

PickRow(p) == GrowthRows[(p % Len(GrowthRows)) + 1]

RECURSIVE RowsOn(_, _)
RowsOn(sheet, picks) ==
    IF picks = <<>> THEN <<>>
    ELSE (IF PickSheet(Head(picks)) = sheet THEN <<PickRow(Head(picks))>> ELSE <<>>)
         \o RowsOn(sheet, Tail(picks))

WorkbookFrom(sheet_names, picks) ==
    [i \in 1..Len(sheet_names) |->
        [name |-> sheet_names[i], rows |-> RowsOn(sheet_names[i], picks)]]

\* Workbooks of five sheets holding up to MaxGrowthRows rows in all.
PickSeqs ==
    {p \in UNION {[1..n -> 0..(Len(NameOrder) * Len(GrowthRows) - 1)] :
                     n \in 0..MaxGrowthRows} :
        \A i \in 1..(Len(p) - 1) : p[i] <= p[i + 1]}

\* Songdo: weights 2 and 4; Haneul: weight 10; Ara, Dongsan: no rows.
ExamplePicks == <<0, 1, 5>>

ExampleWorkbook == WorkbookFrom(SchoolOrder, ExamplePicks)

Workbooks ==
    {WorkbookFrom(NameOrder, p) : p \in PickSeqs}
    \cup {ExampleWorkbook, WorkbookFrom(SubSeq(SchoolOrder, 1, 3), ExamplePicks)}

StoredName(name, form) == IF form = "nfd" THEN Decompose(name) ELSE name

\* The directory holding the files in present, stored under form.
DiskOf(present, form, env, workbook) ==
    SelectSeq(
        [i \in 1..(Len(SchoolOrder) + 1) |->
            IF i <= Len(SchoolOrder)
              THEN [name |-> StoredName(EnvFileName(SchoolOrder[i]), form),
                    content |-> env[SchoolOrder[i]],
                    key |-> SchoolOrder[i]]
              ELSE [name |-> StoredName(GrowthFileName, form),
                    content |-> workbook,
                    key |-> "growth"]],
        LAMBDA f : f.key \in present)

ExpectedFiles == Schools \cup {"growth"}

InitProgram ==
    /\ envCache = NotCached
    /\ growthCache = NotCached
    /\ envLock = NoOwner
    /\ growthLock = NoOwner
    /\ pc = [s \in Sessions |-> "idle"]
    /\ data = [s \in Sessions |-> EmptyDict]
    /\ idx = [s \in Sessions |-> 1]
    /\ msgs = [s \in Sessions |-> <<>>]
    /\ env_data = [s \in Sessions |-> Unset]
    /\ growth_data = [s \in Sessions |-> Unset]
    /\ errors = [s \in Sessions |-> <<>>]
    /\ selected_school = [s \in Sessions |-> AllOption]
    /\ view = [s \in Sessions |-> EmptyView]
    /\ envCalls = 0
    /\ growthCalls = 0
    /\ envLoads = 0
    /\ growthLoads = 0
    /\ envReads = [school \in Schools |-> 0]
    /\ growthReads = 0
    /\ envReturned = {}
    /\ growthReturned = {}

NoResolverCall ==
    /\ rdir = <<>>
    /\ rtarget = GrowthFileName
    /\ rresult = [done |-> TRUE, path |-> NoPath]

\* Any subset of the five expected files is present, stored under the
\* decomposed form of the name the script asks for.
Init ==
    /\ NoResolverCall
    /\ InitProgram
    /\ \E present \in SUBSET ExpectedFiles :
          disk = DiskOf(present, "nfd", DefaultEnv, ExampleWorkbook)

\* All files are present; their contents vary.
InitView ==
    /\ NoResolverCall
    /\ InitProgram
    /\ \/ \E env \in [Schools -> EnvContents] :
             disk = DiskOf(ExpectedFiles, "nfd", env, ExampleWorkbook)
       \/ \E workbook \in Workbooks :
             disk = DiskOf(ExpectedFiles, "nfd", DefaultEnv, workbook)
       \/ \E absent \in ExpectedFiles :
             disk = DiskOf(ExpectedFiles \ {absent}, "nfc", DefaultEnv,
                           ExampleWorkbook)

InitResolver ==
    /\ rdir \in Directories
    /\ rtarget \in NameSet
    /\ rresult = NotCalled
    /\ InitProgram
    /\ disk = <<>>

(***************************************************************************)
(* Specifications.                                                         *)
(***************************************************************************)
Step(s) ==
    \/ Run(s)
    \/ EnvCall(s)
    \/ EnvAcquire(s)
    \/ EnvBody(s)
    \/ GrowthCall(s)
    \/ GrowthAcquire(s)
    \/ GrowthBody(s)
    \/ Check(s)
    \/ Sidebar(s)
    \/ Tab1(s)
    \/ Tab2(s)
    \/ Tab3(s)

\* Concurrent sessions of one server process.
Next == \E s \in Sessions : Step(s)

Spec == Init /\ [][Next]_vars

\* One session, over varying file contents.
NextView == Step(1)

SpecView == InitView /\ [][NextView]_vars

NextResolver == Resolve

SpecResolver == InitResolver /\ [][NextResolver]_vars

(***************************************************************************)
(* Properties.                                                             *)
(***************************************************************************)
Range(f) == {f[i] : i \in DOMAIN f}

\* Canonical equivalence of two names: equal canonical decompositions.
Equivalent(a, b) == Decompose(a) = Decompose(b)

\* The expected file key is on disk under a canonically equivalent name.
OnDisk(name) == \E i \in 1..Len(disk) : Equivalent(disk[i].name, name)

\* The content stored for the expected file key, when it is present.
Stored(key) ==
    LET i == CHOOSE i \in 1..Len(disk) : disk[i].key = key IN disk[i].content

Present(key) == \E i \in 1..Len(disk) : disk[i].key = key

Rendering == {"tab1", "tab2", "tab3", "done", "crashed"}

\* C1: find_file_by_name returns the first entry, in iteration order, whose
\* name is canonically equivalent to the target, and the not-found value
\* when the directory has no such entry.
C1_ResolverFindsFirstEquivalent ==
    rresult.done =>
        LET matching == {i \in 1..Len(rdir) : Equivalent(rdir[i], rtarget)}
        IN  IF matching = {} THEN rresult.path = NoPath
            ELSE rresult.path = rdir[Min(matching)]

\* C1 witness: the composed name was requested, only the decomposed form
\* is stored, and the stored entry was returned.
C1_Witness ==
    /\ rresult.done
    /\ rtarget = <<"LV">>
    /\ <<"LV">> \notin Range(rdir)
    /\ rresult.path = <<"L", "V">>

\* C2: a loader hands back either None or the complete mapping, None
\* exactly when one of its files cannot be resolved; nothing is rendered
\* in a run unless both loads returned complete mappings.
C2_AllOrNothing ==
    \A s \in Sessions :
        /\ env_data[s] # Unset =>
              IF \A k \in Schools : OnDisk(EnvFileName(k))
                THEN DOMAIN env_data[s] = Schools
                ELSE env_data[s] = None
        /\ growth_data[s] # Unset =>
              IF OnDisk(GrowthFileName)
                THEN DOMAIN growth_data[s] =
                        {sh.name : sh \in Range(Stored("growth"))}
                ELSE growth_data[s] = None
        /\ (view[s] # EmptyView \/ pc[s] \in Rendering) =>
              /\ DOMAIN env_data[s] = Schools
              /\ growth_data[s] \notin {Unset, None}

\* C2 witness: a run halted with nothing rendered after the loader had read
\* the first school's file and then met a missing one.
C2_Witness ==
    \E s \in Sessions :
        /\ pc[s] = "stopped"
        /\ envReads["Songdo"] = 1
        /\ env_data[s] = None
        /\ view[s] = EmptyView

\* C3: over all calls of the loaders no input file is read twice, and all
\* calls of a loader return the one stored value.
C3_ReadAtMostOnce ==
    /\ \A k \in Schools : envReads[k] <= 1
    /\ growthReads <= 1
    /\ envReturned \subseteq (IF envCache.cached THEN {envCache.value} ELSE {})
    /\ growthReturned \subseteq
          (IF growthCache.cached THEN {growthCache.value} ELSE {})

\* C3 witness: each loader was called again after its files had been read.
C3_Witness ==
    /\ envCalls >= 2
    /\ growthCalls >= 2
    /\ \A s \in Sessions : pc[s] = "done"
    /\ \A k \in Schools : envReads[k] = 1
    /\ growthReads = 1

\* C9: however the first calls of concurrent sessions interleave, the body
\* of each loader runs once, never in two sessions at a time, and every
\* session receives the stored result.
C9_SingleFlight ==
    /\ envLoads <= 1
    /\ growthLoads <= 1
    /\ \A s, t \in Sessions :
          (pc[s] = "env_body" /\ pc[t] = "env_body") => s = t
    /\ \A s, t \in Sessions :
          (pc[s] = "growth_body" /\ pc[t] = "growth_body") => s = t
    /\ \A s \in Sessions :
          /\ env_data[s] # Unset =>
                envCache.cached /\ env_data[s] = envCache.value
          /\ growth_data[s] # Unset =>
                growthCache.cached /\ growth_data[s] = growthCache.value

\* C9 witness: two sessions missed the entry concurrently; one computed it
\* and both hold the result.
C9_Witness ==
    \E s, t \in Sessions :
        /\ s # t
        /\ envCalls = 2
        /\ envLoads = 1
        /\ envLock = NoOwner
        /\ pc[s] = "growth_lock"
        /\ pc[t] = "growth_body"
        /\ env_data[s] = env_data[t]
        /\ env_data[s] # None

\* C5: whenever a load aborted on an absent file, a message shown in that
\* run contains the absent file's name.
C5_ErrorNamesMissingFile ==
    \A s \in Sessions :
        /\ env_data[s] = None =>
              \E i \in 1..Len(errors[s]), k \in Schools :
                  /\ ~OnDisk(EnvFileName(k))
                  /\ EnvFileName(k) \in Range(errors[s][i].shows)
        /\ growth_data[s] = None =>
              \E i \in 1..Len(errors[s]) :
                  GrowthFileName \in Range(errors[s][i].shows)

\* The rows of the sheet named name in the workbook on disk.
SheetRows(name) ==
    LET sheets == Stored("growth")
        i == CHOOSE i \in 1..Len(sheets) : sheets[i].name = name
    IN  sheets[i].rows

SheetNames == {sh.name : sh \in Range(Stored("growth"))}

Loaded(s) == growth_data[s] \notin {Unset, None}

\* C4: in a loaded growth mapping every sheet of the workbook is a key,
\* every row carries its sheet's name as school, and its EC is the
\* school's EC_INFO value, or the missing marker for a sheet that is no
\* known school; with the workbook present the load never fails.
C4_GrowthRowsTagged ==
    \A s \in Sessions :
        /\ (growth_data[s] # Unset /\ Present("growth")) => growth_data[s] # None
        /\ Loaded(s) =>
              /\ DOMAIN growth_data[s] = SheetNames
              /\ \A sheet \in DOMAIN growth_data[s] :
                    /\ Len(growth_data[s][sheet]) = Len(SheetRows(sheet))
                    /\ \A i \in 1..Len(growth_data[s][sheet]) :
                          LET row == growth_data[s][sheet][i]
                          IN  /\ row.school = sheet
                              /\ row.weight = SheetRows(sheet)[i].weight
                              /\ row.EC = IF sheet \in Schools
                                            THEN EC_INFO[sheet]
                                            ELSE MissingEC

\* C4 witness: a workbook with rows on a known school's sheet and on a
\* sheet of no known school was loaded.
C4_Witness ==
    \E s \in Sessions :
        /\ Loaded(s)
        /\ "Other" \in DOMAIN growth_data[s]
        /\ growth_data[s]["Other"] # <<>>
        /\ growth_data[s]["Other"][1].EC = MissingEC
        /\ growth_data[s]["Songdo"] # <<>>
        /\ growth_data[s]["Songdo"][1].EC = 1

\* C6: the total shown in the overview is the number of rows of the
\* concatenated growth table.
C6_TotalCountsEverySheet ==
    \A s \in Sessions :
        view[s].tab1.rendered =>
            view[s].tab1.total_plants = Len(Concat(growth_data[s]))

\* The EC levels that have a growth row in the workbook on disk, and the
\* mean fresh weight of a level's rows.
LevelsOnDisk ==
    {EC_INFO[k] : k \in {k \in Schools \cap SheetNames : SheetRows(k) # <<>>}}

LevelMean(level) ==
    LET k == CHOOSE k \in Schools : EC_INFO[k] = level
    IN  Mean(Column(SheetRows(k), Weight))

\* C7: the best EC shown in the overview and starred in the growth tab is
\* the level of maximal mean fresh weight, the lowest such level on a tie;
\* the groups are exactly the levels with a row, so rows without an EC are
\* in none.
C7_BestEC ==
    \A s \in Sessions :
        view[s].tab3.rendered =>
            LET best == view[s].tab1.best_ec
                shown == view[s].tab3.mean_weight
                metrics == view[s].tab3.metrics
            IN  /\ best \in LevelsOnDisk
                /\ \A l \in LevelsOnDisk : ~Greater(LevelMean(l), LevelMean(best))
                /\ \A l \in LevelsOnDisk :
                      LevelMean(l) = LevelMean(best) => best <= l
                /\ view[s].tab3.best_ec = best
                /\ {shown[i].EC : i \in 1..Len(shown)} = LevelsOnDisk
                /\ \A i \in 1..Len(shown) : shown[i].mean = LevelMean(shown[i].EC)
                /\ {metrics[i].EC : i \in {j \in 1..Len(metrics) : metrics[j].star}}
                      = {best}

\* C7 witness: rows {EC 1, w 2}, {EC 1, w 4}, {EC 2, w 10} give the means
\* {1: 3, 2: 10} and best EC 2.
C7_Witness ==
    \E s \in Sessions :
        /\ view[s].tab3.rendered
        /\ Concat(growth_data[s]) =
              <<[weight |-> 2, leaves |-> 3, length |-> 10, school |-> "Songdo", EC |-> 1],
                [weight |-> 4, leaves |-> 5, length |-> 20, school |-> "Songdo", EC |-> 1],
                [weight |-> 10, leaves |-> 8, length |-> 30, school |-> "Haneul", EC |-> 2]>>
        /\ view[s].tab3.mean_weight =
              <<[EC |-> 1, mean |-> [num |-> 3, den |-> 1]],
                [EC |-> 2, mean |-> [num |-> 10, den |-> 1]]>>
        /\ view[s].tab1.best_ec = 2
        /\ view[s].tab3.best_ec = 2

\* The environment rows stored for all schools, and the tagged rows the
\* loader makes of one school's file.
AllStoredEnvRows == ConcatFrom([k \in Schools |-> Stored(k)], SchoolOrder)

\* C8: whatever is selected, the loaded tables are the stored ones, the
\* bar charts and summary metrics are computed from every school's rows,
\* and the time series is drawn for a single selected school only, from
\* exactly that school's rows with the reference line at its target EC.
C8_FilterOnlyTimeSeries ==
    \A s \in Sessions :
        view[s].tab2.rendered =>
            LET sel == selected_school[s]
                tab == view[s].tab2
            IN  /\ env_data[s] = envCache.value
                /\ growth_data[s] = growthCache.value
                /\ \A k \in Schools :
                      /\ Len(env_data[s][k]) = Len(Stored(k))
                      /\ Stored(k) # <<>> =>
                            /\ k \in DOMAIN tab.env_mean
                            /\ tab.env_mean[k].temperature =
                                  Mean(Column(Stored(k), Temperature))
                            /\ tab.env_mean[k].ec =
                                  Mean(Column(Stored(k), MeasuredEc))
                /\ Len(tab.raw) = Len(AllStoredEnvRows)
                /\ view[s].tab1.avg_temp =
                      Mean(Column(AllStoredEnvRows, Temperature))
                /\ IF sel = AllOption THEN tab.ts = NoChart
                   ELSE /\ tab.ts.drawn
                        /\ tab.ts.hline = EC_INFO[sel]
                        /\ Len(tab.ts.rows) = Len(Stored(sel))
                        /\ \A i \in 1..Len(tab.ts.rows) :
                              /\ tab.ts.rows[i].school = sel
                              /\ tab.ts.rows[i].time = Stored(sel)[i].time
                              /\ tab.ts.rows[i].ec = Stored(sel)[i].ec

\* C8 witness: one school is selected, its time series is drawn, and the
\* bar charts show other schools too.
C8_Witness ==
    \E s \in Sessions :
        /\ view[s].tab2.rendered
        /\ selected_school[s] = "Haneul"
        /\ view[s].tab2.ts.rows # <<>>
        /\ {"Songdo", "Haneul"} \subseteq DOMAIN view[s].tab2.env_mean

\* C10: a school whose environment file has no rows is shown in the
\* per-school means with the undefined mean.
C10_EmptySchoolShownUndefined ==
    \A s \in Sessions :
        view[s].tab2.rendered =>
            \A k \in Schools :
                Stored(k) = <<>> =>
                    /\ k \in DOMAIN view[s].tab2.env_mean
                    /\ view[s].tab2.env_mean[k].temperature = NaN

=============================================================================
